---- MODULE Spec2Model ----
(***************************************************************************)
(* dep2bazel (src/dep2bazel/main.go): turns the projects of a Gopkg.lock   *)
(* into go_repository rules.  Strings are sequences of one-character       *)
(* strings, so prefixes, regular expressions and concatenation are         *)
(* computed character by character as the Go code computes them.           *)
(***************************************************************************)
EXTENDS Integers, Sequences, FiniteSets, TLC

VARIABLES
    lock,       \* raw.Projects, the parsed Gopkg.lock
    idx,        \* position of the range loop of main (1-based)
    pc,         \* the statement the program is at
    exitCode,   \* exit status of the process, NoExit while it runs
    stdout,     \* what was written to os.Stdout
    stderr,     \* what was written to os.Stderr
    rr,         \* locals of remoteRepository
    gh,         \* locals of githubTarball
    ret,        \* the pair returned by the last tryTarball call
    repo,       \* the RemoteRepository returned by remoteRepository
    files,      \* the temporary directory: file name -> content
    handles,    \* number of open *os.File handles of the process
    roots,      \* history: result of vcs.RepoRootForImportPath per project
    probes,     \* history: tryTarball calls of the current remoteRepository call
    fetches,    \* history: http.Get URLs of the current remoteRepository call
    fnIn,       \* argument of the pure function under test
    fnOut       \* results of the pure function under test

vars == <<lock, idx, pc, exitCode, stdout, stderr, rr, gh, ret, repo, files,
          handles, roots, probes, fetches, fnIn, fnOut>>

----------------------------------------------------------------------------
(* String helpers (package strings, fmt.Sprintf("%v...")) *)

Lower == {"a","b","c","d","e","f","g","h","i","j","k","l","m","n","o","p","q","r","s","t","u","v","w","x","y","z"}
Upper == {"A","B","C","D","E","F","G","H","I","J","K","L","M","N","O","P","Q","R","S","T","U","V","W","X","Y","Z"}
Digit == {"0","1","2","3","4","5","6","7","8","9"}
Digit19 == Digit \ {"0"}

\* strings.HasPrefix(s, prefix)
HasPrefix(s, prefix) ==
    /\ Len(s) >= Len(prefix)
    /\ SubSeq(s, 1, Len(prefix)) = prefix

\* s[i:i+len(lit)] == lit, false when out of range
LitAt(s, i, lit) ==
    /\ i >= 1
    /\ i + Len(lit) - 1 <= Len(s)
    /\ SubSeq(s, i, i + Len(lit) - 1) = lit

\* Position just after the longest run of characters of Class starting at i.
RunEnd(s, i, Class) ==
    CHOOSE k \in i..(Len(s) + 1) :
        /\ \A x \in i..(k - 1) : s[x] \in Class
        /\ (k = Len(s) + 1 \/ s[k] \notin Class)

Max(S) == CHOOSE x \in S : \A y \in S : y <= x

\* "https://github.com/"
GithubPrefix == <<"h","t","t","p","s",":","/","/","g","i","t","h","u","b",".","c","o","m","/">>
\* "https://gopkg.in/"
GopkgPrefix == <<"h","t","t","p","s",":","/","/","g","o","p","k","g",".","i","n","/">>
\* "https://go.googlesource.com/"
GooglesourcePrefix == <<"h","t","t","p","s",":","/","/","g","o",".","g","o","o","g","l","e","s","o","u","r","c","e",".","c","o","m","/">>
\* "https://github.com/go-"
GithubGoDash == <<"h","t","t","p","s",":","/","/","g","i","t","h","u","b",".","c","o","m","/","g","o","-">>
\* "https://github.com/golang/"
GithubGolang == <<"h","t","t","p","s",":","/","/","g","i","t","h","u","b",".","c","o","m","/","g","o","l","a","n","g","/">>
\* "/archive/"
ArchiveInfix == <<"/","a","r","c","h","i","v","e","/">>
\* "/+archive/"
PlusArchiveInfix == <<"/","+","a","r","c","h","i","v","e","/">>
\* ".tar.gz"
TarGzSuffix == <<".","t","a","r",".","g","z">>
\* ".git"
DotGit == <<".","g","i","t">>
\* "-unstable"
DashUnstable == <<"-","u","n","s","t","a","b","l","e">>

----------------------------------------------------------------------------
(* The two gopkg.in patterns, main.go:137-138.  Both are anchored at both  *)
(* ends; every operator below returns positions "just after" a match.      *)

\* (?:v0|v[1-9][0-9]*) starting at i
MajorEnds(s, i) ==
    IF i + 1 <= Len(s) /\ s[i] = "v"
    THEN (IF s[i + 1] = "0" THEN {i + 2} ELSE {})
         \cup (IF s[i + 1] \in Digit19
               THEN {k \in (i + 2)..(Len(s) + 1) : \A x \in (i + 2)..(k - 1) : s[x] \in Digit}
               ELSE {})
    ELSE {}

\* (?:\.0|\.[1-9][0-9]*) starting at i
MinorEnds(s, i) ==
    IF i + 1 <= Len(s) /\ s[i] = "."
    THEN (IF s[i + 1] = "0" THEN {i + 2} ELSE {})
         \cup (IF s[i + 1] \in Digit19
               THEN {k \in (i + 2)..(Len(s) + 1) : \A x \in (i + 2)..(k - 1) : s[x] \in Digit}
               ELSE {})
    ELSE {}

\* ((?:v0|v[1-9][0-9]*)(?:\.0|\.[1-9][0-9]*){0,2}(?:-unstable)?) starting at i
VersionEnds(s, i) ==
    LET m0 == MajorEnds(s, i)
        m1 == UNION {MinorEnds(s, a) : a \in m0}
        m2 == UNION {MinorEnds(s, a) : a \in m1}
        d  == m0 \cup m1 \cup m2
    IN  d \cup {a + Len(DashUnstable) : a \in {x \in d : LitAt(s, x, DashUnstable)}}

\* ((?:/First Rest*)*)$ starting at k
RECURSIVE SubpathsOK(_, _, _, _)
SubpathsOK(s, k, First, Rest) ==
    IF k = Len(s) + 1 THEN TRUE
    ELSE /\ k + 1 <= Len(s)
         /\ s[k] = "/"
         /\ s[k + 1] \in First
         /\ SubpathsOK(s, RunEnd(s, k + 2, Rest), First, Rest)

\* (?:\.git)?((?:/First Rest*)*)$ starting at k
TailOK(s, k, First, Rest) ==
    \/ (LitAt(s, k, DotGit) /\ SubpathsOK(s, k + Len(DotGit), First, Rest))
    \/ SubpathsOK(s, k, First, Rest)

NewUserFirst == Lower \cup Upper \cup Digit
NewUserRest == Lower \cup Upper \cup Digit \cup {"-"}
NewNameFirst == Lower \cup Upper
NewNameRest == Lower \cup Upper \cup Digit \cup {"-", "."}
NewSubFirst == Lower \cup Upper \cup Digit
NewSubRest == Lower \cup Upper \cup Digit \cup {"-", "."}

OldUserFirst == Lower \cup Digit
OldUserRest == Lower \cup Digit \cup {"-"}
OldNameFirst == Lower \cup Upper
OldNameRest == Lower \cup Upper \cup Digit \cup {"-"}

\* ([a-zA-Z][-.a-zA-Z0-9]*)\.(version)(?:\.git)?(subpaths)$ starting at p:
\* the positions j of the "." that ends the name.
NewNameDots(s, p) ==
    IF p <= Len(s) /\ s[p] \in NewNameFirst
    THEN {j \in (p + 1)..Len(s) :
            /\ \A x \in (p + 1)..(j - 1) : s[x] \in NewNameRest
            /\ s[j] = "."
            /\ \E k \in VersionEnds(s, j + 1) : TailOK(s, k, NewSubFirst, NewSubRest)}
    ELSE {}

\* FindStringSubmatch returns nil when the pattern does not match, and
\* otherwise m with m[0] the whole match and m[1..3] the groups used here
\* (a group that did not take part is "").
NoMatch == <<>>

Submatch(whole, g1, g2, g3) ==
    [i \in 0..3 |-> IF i = 0 THEN whole ELSE IF i = 1 THEN g1 ELSE IF i = 2 THEN g2 ELSE g3]

\* gopkgInPatternNew.FindStringSubmatch(tail): m[1] = user, m[2] = name, m[3] = version
MatchNew(s) ==
    IF Len(s) = 0 \/ s[1] # "/" THEN NoMatch
    ELSE
      LET u == IF Len(s) >= 3 /\ s[2] \in NewUserFirst THEN RunEnd(s, 3, NewUserRest) ELSE 0
          withUser == /\ u >= 4
                      /\ u <= Len(s)
                      /\ s[u] = "/"
                      /\ NewNameDots(s, u + 1) # {}
          p == IF withUser THEN u + 1 ELSE 2
          dots == NewNameDots(s, p)
      IN  IF dots = {} THEN NoMatch
          ELSE LET j == Max(dots)
                   k == Max({e \in VersionEnds(s, j + 1) : TailOK(s, e, NewSubFirst, NewSubRest)})
               IN  Submatch(s,
                            IF withUser THEN SubSeq(s, 2, u - 1) ELSE <<>>,
                            SubSeq(s, p, j - 1),
                            SubSeq(s, j + 1, k - 1))

\* (version)/([a-zA-Z][-a-zA-Z0-9]*)(?:\.git)?(subpaths)$ starting at p:
\* the positions of the "/" that ends the version.
OldVersionSlashes(s, p) ==
    {k \in VersionEnds(s, p) :
        /\ k + 1 <= Len(s)
        /\ s[k] = "/"
        /\ s[k + 1] \in OldNameFirst
        /\ TailOK(s, RunEnd(s, k + 2, OldNameRest), OldNameFirst, OldNameRest)}

\* gopkgInPatternOld.FindStringSubmatch(tail): m[1] = user, m[2] = version, m[3] = name
MatchOld(s) ==
    IF Len(s) = 0 \/ s[1] # "/" THEN NoMatch
    ELSE
      LET u == IF Len(s) >= 3 /\ s[2] \in OldUserFirst THEN RunEnd(s, 3, OldUserRest) ELSE 0
          withUser == /\ u >= 4
                      /\ u <= Len(s)
                      /\ s[u] = "/"
                      /\ OldVersionSlashes(s, u + 1) # {}
          p == IF withUser THEN u + 1 ELSE 2
          slashes == OldVersionSlashes(s, p)
      IN  IF slashes = {} THEN NoMatch
          ELSE LET k == Max(slashes)
               IN  Submatch(s,
                            IF withUser THEN SubSeq(s, 2, u - 1) ELSE <<>>,
                            SubSeq(s, p, k - 1),
                            SubSeq(s, k + 1, RunEnd(s, k + 2, OldNameRest) - 1))

\* path.Split(url): the part after the final "/"
PathSplitFile(url) ==
    LET slashes == {i \in 1..Len(url) : url[i] = "/"}
    IN  IF slashes = {} THEN url ELSE SubSeq(url, Max(slashes) + 1, Len(url))

\* the swap left out
NoSwap23(m) == m

\* m[2], m[3] = m[3], m[2]
Swap23(m) == Submatch(m[0], m[1], m[3], m[2])

\* remapURL
remapURL(url) ==
    IF HasPrefix(url, GopkgPrefix)
    THEN LET tail == SubSeq(url, Len(GopkgPrefix), Len(url))
             mNew == MatchNew(tail)
             mOld == MatchOld(tail)
         IN  IF mNew = NoMatch /\ mOld = NoMatch THEN url
             ELSE LET m == IF mNew # NoMatch THEN mNew ELSE Swap23(mOld)
                      repoUser == m[1]
                      repoName == m[2]
                  IN  IF repoUser # <<>>
                      THEN GithubPrefix \o repoUser \o <<"/">> \o repoName
                      ELSE GithubGoDash \o repoName \o <<"/">> \o repoName
    ELSE IF HasPrefix(url, GooglesourcePrefix)
    THEN GithubGolang \o PathSplitFile(url)
    ELSE url

----------------------------------------------------------------------------
(* bazelName, main.go:62-73 *)

\* strings.Split(s, sep) for a one-character sep
RECURSIVE Split(_, _)
Split(s, sep) ==
    LET hits == {i \in 1..Len(s) : s[i] = sep}
    IN  IF hits = {} THEN <<s>>
        ELSE LET i == CHOOSE x \in hits : \A y \in hits : x <= y
             IN  <<SubSeq(s, 1, i - 1)>> \o Split(SubSeq(s, i + 1, Len(s)), sep)

\* strings.Join(parts, sep)
RECURSIVE Join(_, _)
Join(parts, sep) ==
    IF Len(parts) = 0 THEN <<>>
    ELSE IF Len(parts) = 1 THEN parts[1]
    ELSE parts[1] \o sep \o Join(Tail(parts), sep)

\* for i := len(hostparts) - 1; i >= 0; i-- { slice = append(slice, hostparts[i]) }
Reverse(q) == [i \in 1..Len(q) |-> q[Len(q) + 1 - i]]

\* strings.NewReplacer("-", "_", ".", "_").Replace(name)
ReplaceDashDot(name) ==
    [i \in 1..Len(name) |-> IF name[i] \in {"-", "."} THEN "_" ELSE name[i]]

bazelName(importpath) ==
    LET parts     == Split(importpath, "/")
        hostparts == Split(parts[1], ".")
        slice     == Reverse(hostparts) \o Tail(parts)
    IN  ReplaceDashDot(Join(slice, <<"_">>))

----------------------------------------------------------------------------
(* Descriptors and rendering, main.go:37-45 and 181-207 *)

RemoteTarball(url, stripPrefix, sha256) ==
    [type |-> "RemoteTarball", url |-> url, stripPrefix |-> stripPrefix, sha256 |-> sha256]

RemoteGitRepo(revision) ==
    [type |-> "RemoteGitRepo", revision |-> revision]

\* One line `        key = "val",` of a rule; for urls val is the list.
Field(key, val) == [key |-> key, val |-> val]

OpenRule == [key |-> "go_repository(", val |-> <<>>]
CloseRule == [key |-> ")", val |-> <<>>]
ProtoMode == Field("build_file_proto_mode", <<"d","i","s","a","b","l","e">>)

\* the sha256 line written whether or not there is a checksum
TarballRepoStringAlwaysSha(t, name, importPath) ==
    <<OpenRule,
      Field("name", name),
      Field("importpath", importPath),
      Field("urls", <<t.url>>),
      Field("strip_prefix", t.stripPrefix),
      Field("sha256", t.sha256),
      ProtoMode,
      CloseRule>>

\* (t *RemoteTarball) GetRepoString
TarballRepoString(t, name, importPath) ==
    <<OpenRule,
      Field("name", name),
      Field("importpath", importPath),
      Field("urls", <<t.url>>),
      Field("strip_prefix", t.stripPrefix)>>
    \o (IF t.sha256 # <<>> THEN <<Field("sha256", t.sha256)>> ELSE <<>>)
    \o <<ProtoMode, CloseRule>>

\* (t *RemoteGitRepo) GetRepoString
GitRepoString(t, name, importPath) ==
    <<OpenRule,
      Field("name", name),
      Field("importpath", importPath),
      Field("commit", t.revision),
      ProtoMode,
      CloseRule>>

\* Dynamic dispatch of RemoteRepository.GetRepoString
GetRepoString(r, name, importPath) ==
    IF r.type = "RemoteTarball"
    THEN TarballRepoString(r, name, importPath)
    ELSE GitRepoString(r, name, importPath)

----------------------------------------------------------------------------
(* Archive probing, main.go:51-60, 75-135, 171-179 *)

Nil == [type |-> "nil"]

\* An error value, named after the call that produced it.
Err(site) == [type |-> "error", site |-> site]

\* downloadURL := fmt.Sprintf("%v/archive/%v", url, fmt.Sprintf("%v.tar.gz", revision))
DownloadURL(url, revision) == url \o ArchiveInfix \o revision \o TarGzSuffix

googlesourceTarball(url, revision) ==
    RemoteTarball(url \o PlusArchiveInfix \o revision \o TarGzSuffix, <<>>, <<>>)

\* the go.googlesource.com branch sent to githubTarball
tryTarballHostAllDownload(url) ==
    IF HasPrefix(url, GithubPrefix) \/ HasPrefix(url, GooglesourcePrefix) THEN "github"
    ELSE "unknown"

\* the go.googlesource.com branch left out
tryTarballHostGithubOnly(url) ==
    IF HasPrefix(url, GithubPrefix) THEN "github" ELSE "unknown"

\* Which branch of tryTarball a URL takes.
tryTarballHost(url) ==
    IF HasPrefix(url, GithubPrefix) THEN "github"
    ELSE IF HasPrefix(url, GooglesourcePrefix) THEN "googlesource"
    ELSE "unknown"

\* Downloaded bytes: whether they start with the gzip magic and, if so,
\* the names of the tar entries the stream holds.
Body(magic, entries) == [magic |-> magic, entries |-> entries]

\* "pax_global_header"
EntryPax == <<"p","a","x","_","g","l","o","b","a","l","_","h","e","a","d","e","r">>
\* "errors-abc123/"
EntryRoot == <<"e","r","r","o","r","s","-","a","b","c","1","2","3","/">>

Bodies ==
    <<Body(FALSE, <<>>),
      Body(TRUE, <<>>),
      Body(TRUE, <<EntryPax>>),
      Body(TRUE, <<EntryPax, EntryRoot>>)>>

HexDigits == <<"0","1","2","3","4","5","6","7","8","9","a","b","c","d","e","f">>

\* fmt.Sprintf("%x", sha256.Sum256(b)): a hex string, never empty, that
\* differs for different bytes.
Sha256Hex(b) ==
    LET n == CHOOSE i \in 1..Len(Bodies) : Bodies[i] = b
    IN  <<HexDigits[(n \div 16) + 1], HexDigits[(n % 16) + 1]>>

HTTPStatuses == {200, 404}

----------------------------------------------------------------------------
(* Inputs *)

MaxProjects == 2
MaxTmp == 2

\* "abc123", "f00"
RevA == <<"a","b","c","1","2","3">>
RevB == <<"f","0","0">>

\* "github.com/pkg/errors", "gopkg.in/yaml.v2"
NameErrors == <<"g","i","t","h","u","b",".","c","o","m","/","p","k","g","/","e","r","r","o","r","s">>
NameYaml == <<"g","o","p","k","g",".","i","n","/","y","a","m","l",".","v","2">>

\* LockedProject values (the fields main reads)
Projects ==
    {[Name |-> NameErrors, Revision |-> RevA],
     [Name |-> NameYaml, Revision |-> RevB]}

Lockfiles == UNION {[1..n -> Projects] : n \in 0..MaxProjects}

\* root.Repo values vcs.RepoRootForImportPath may return
UrlGithubErrors == <<"h","t","t","p","s",":","/","/","g","i","t","h","u","b",".","c","o","m","/","p","k","g","/","e","r","r","o","r","s">>
UrlGopkgYaml == <<"h","t","t","p","s",":","/","/","g","o","p","k","g",".","i","n","/","y","a","m","l",".","v","2">>
UrlGooglesourceNet == <<"h","t","t","p","s",":","/","/","g","o",".","g","o","o","g","l","e","s","o","u","r","c","e",".","c","o","m","/","n","e","t">>
UrlOther == <<"h","t","t","p","s",":","/","/","e","x","a","m","p","l","e",".","c","o","m","/","f","o","o">>

RootURLs == {UrlGithubErrors, UrlGopkgYaml, UrlGooglesourceNet, UrlOther}

\* names ioutil.TempFile("", "") may pick
TmpNames == 1..MaxTmp

NoExit == -1

EmptyDir == [n \in {} |-> Nil]

\* f, err := ioutil.TempFile("", ""): a new, empty file
CreateFile(dir, name) ==
    [n \in DOMAIN dir \cup {name} |-> IF n = name THEN Body(FALSE, <<>>) ELSE dir[n]]

\* io.Copy(f, resp.Body)
WriteFile(dir, name, b) ==
    [n \in DOMAIN dir |-> IF n = name THEN b ELSE dir[n]]

\* the file left behind
KeepFile(dir, name) == dir

\* os.Remove(filename)
RemoveFile(dir, name) ==
    [n \in DOMAIN dir \ {name} |-> dir[n]]

----------------------------------------------------------------------------
(* main, main.go:244-288 *)

Init ==
    /\ lock \in Lockfiles
    /\ idx = 1
    /\ pc = "main"
    /\ exitCode = NoExit
    /\ stdout = <<>>
    /\ stderr = <<>>
    /\ rr = Nil
    /\ gh = Nil
    /\ ret = Nil
    /\ repo = Nil
    /\ files = EmptyDir
    /\ handles = 0
    /\ roots = <<>>
    /\ probes = <<>>
    /\ fetches = <<>>
    /\ fnIn = Nil
    /\ fnOut = <<>>

\* len(os.Args) != 2 or a blank argument: usage()
MainUsage ==
    /\ pc = "main"
    /\ stdout' = Append(stdout, [kind |-> "usage", project |-> 0])
    /\ exitCode' = 1
    /\ pc' = "exit"
    /\ UNCHANGED <<lock, idx, stderr, rr, gh, ret, repo, files, handles, roots,
                   probes, fetches, fnIn, fnOut>>

\* ioutil.ReadFile(filename) fails
MainReadFail ==
    /\ pc = "main"
    /\ stderr' = Append(stderr, [kind |-> "failed to read Gopkg.lock", project |-> 0])
    /\ exitCode' = 1
    /\ pc' = "exit"
    /\ UNCHANGED <<lock, idx, stdout, rr, gh, ret, repo, files, handles, roots,
                   probes, fetches, fnIn, fnOut>>

\* toml.Unmarshal fails
MainParseFail ==
    /\ pc = "main"
    /\ stderr' = Append(stderr, [kind |-> "failed to parse Gopkg.lock", project |-> 0])
    /\ exitCode' = 1
    /\ pc' = "exit"
    /\ UNCHANGED <<lock, idx, stdout, rr, gh, ret, repo, files, handles, roots,
                   probes, fetches, fnIn, fnOut>>

\* the lockfile was read and parsed: print the header
MainHeader ==
    /\ pc = "main"
    /\ stdout' = Append(stdout, [kind |-> "header", project |-> 0])
    /\ pc' = "loop"
    /\ UNCHANGED <<lock, idx, exitCode, stderr, rr, gh, ret, repo, files, handles,
                   roots, probes, fetches, fnIn, fnOut>>

\* vcs.RepoRootForImportPath fails: fmt.Println(err); continue
RootFail ==
    /\ pc = "loop"
    /\ idx <= Len(lock)
    /\ stdout' = Append(stdout, [kind |-> "error", project |-> idx])
    /\ roots' = Append(roots, Err("vcs.RepoRootForImportPath"))
    /\ idx' = idx + 1
    /\ UNCHANGED <<lock, pc, exitCode, stderr, rr, gh, ret, repo, files, handles,
                   probes, fetches, fnIn, fnOut>>

\* vcs.RepoRootForImportPath succeeds: call remoteRepository(root.Repo, lp.Name, lp.Revision)
RootOk ==
    /\ pc = "loop"
    /\ idx <= Len(lock)
    /\ \E u \in RootURLs :
        /\ roots' = Append(roots, [type |-> "RepoRoot", Repo |-> u])
        /\ rr' = [url |-> u, importName |-> lock[idx].Name,
                  revision |-> lock[idx].Revision,
                  remappedURL |-> Nil, stage |-> 0, callURL |-> Nil]
    /\ probes' = <<>>
    /\ fetches' = <<>>
    /\ pc' = "remoteRepository"
    /\ UNCHANGED <<lock, idx, exitCode, stdout, stderr, gh, ret, repo, files,
                   handles, fnIn, fnOut>>

\* the range loop is over: main returns
MainReturn ==
    /\ pc = "loop"
    /\ idx > Len(lock)
    /\ exitCode' = 0
    /\ pc' = "exit"
    /\ UNCHANGED <<lock, idx, stdout, stderr, rr, gh, ret, repo, files, handles,
                   roots, probes, fetches, fnIn, fnOut>>

\* main.go:281-285
Emit ==
    /\ pc = "returned"
    /\ IF repo.err # Nil
       THEN /\ stderr' = Append(stderr, [kind |-> "failed to parse", project |-> idx])
            /\ UNCHANGED stdout
       ELSE /\ stdout' = Append(stdout,
                    [kind |-> "rule", project |-> idx,
                     text |-> GetRepoString(repo.value, bazelName(lock[idx].Name),
                                            lock[idx].Name)])
            /\ UNCHANGED stderr
    /\ idx' = idx + 1
    /\ repo' = Nil
    /\ ret' = Nil
    /\ probes' = <<>>
    /\ fetches' = <<>>
    /\ pc' = "loop"
    /\ UNCHANGED <<lock, exitCode, rr, gh, files, handles, roots, fnIn, fnOut>>

----------------------------------------------------------------------------
(* remoteRepository, main.go:209-227 *)

\* the second tryTarball call left out
remoteRepositoryStepNoOriginal(stage, err) ==
    IF err = Nil THEN "return tarball" ELSE "return git"

\* What remoteRepository does with the error of its stage-th tryTarball call.
remoteRepositoryStep(stage, err) ==
    IF err = Nil THEN "return tarball"
    ELSE IF stage = 1 THEN "try original url"
    ELSE "return git"

\* remappedURL := remapURL(url); tryTarball(remappedURL, revision)
TryRemapped ==
    /\ pc = "remoteRepository"
    /\ rr' = [rr EXCEPT !.remappedURL = remapURL(rr.url),
                        !.stage = 1,
                        !.callURL = remapURL(rr.url)]
    /\ pc' = "tryTarball"
    /\ UNCHANGED <<lock, idx, exitCode, stdout, stderr, gh, ret, repo, files,
                   handles, roots, probes, fetches, fnIn, fnOut>>

\* if err == nil { return tarball, nil }
ReturnTarball ==
    /\ pc = "tried"
    /\ remoteRepositoryStep(rr.stage, ret.err) = "return tarball"
    /\ probes' = Append(probes, [url |-> rr.callURL, revision |-> rr.revision, ret |-> ret])
    /\ repo' = [value |-> ret.tarball, err |-> Nil]
    /\ rr' = Nil
    /\ pc' = "returned"
    /\ UNCHANGED <<lock, idx, exitCode, stdout, stderr, gh, ret, files, handles,
                   roots, fetches, fnIn, fnOut>>

\* tarball, err = tryTarball(url, revision)
TryOriginal ==
    /\ pc = "tried"
    /\ remoteRepositoryStep(rr.stage, ret.err) = "try original url"
    /\ probes' = Append(probes, [url |-> rr.callURL, revision |-> rr.revision, ret |-> ret])
    /\ rr' = [rr EXCEPT !.stage = 2, !.callURL = rr.url]
    /\ pc' = "tryTarball"
    /\ UNCHANGED <<lock, idx, exitCode, stdout, stderr, gh, ret, repo, files,
                   handles, roots, fetches, fnIn, fnOut>>

\* return &RemoteGitRepo{revision: revision}, nil
ReturnGit ==
    /\ pc = "tried"
    /\ remoteRepositoryStep(rr.stage, ret.err) = "return git"
    /\ probes' = Append(probes, [url |-> rr.callURL, revision |-> rr.revision, ret |-> ret])
    /\ repo' = [value |-> RemoteGitRepo(rr.revision), err |-> Nil]
    /\ rr' = Nil
    /\ pc' = "returned"
    /\ UNCHANGED <<lock, idx, exitCode, stdout, stderr, gh, ret, files, handles,
                   roots, fetches, fnIn, fnOut>>

----------------------------------------------------------------------------
(* tryTarball, main.go:171-179 *)

\* return githubTarball(url, revision)
TryGithub ==
    /\ pc = "tryTarball"
    /\ tryTarballHost(rr.callURL) = "github"
    /\ gh' = [url |-> rr.callURL, revision |-> rr.revision, filename |-> 0,
              downloadURL |-> <<>>, status |-> 0]
    /\ pc' = "githubTarball"
    /\ UNCHANGED <<lock, idx, exitCode, stdout, stderr, rr, ret, repo, files,
                   handles, roots, probes, fetches, fnIn, fnOut>>

\* return googlesourceTarball(url, revision)
TryGooglesource ==
    /\ pc = "tryTarball"
    /\ tryTarballHost(rr.callURL) = "googlesource"
    /\ ret' = [tarball |-> googlesourceTarball(rr.callURL, rr.revision), err |-> Nil]
    /\ pc' = "tried"
    /\ UNCHANGED <<lock, idx, exitCode, stdout, stderr, rr, gh, repo, files,
                   handles, roots, probes, fetches, fnIn, fnOut>>

\* return &RemoteTarball{}, fmt.Errorf("Unknown server")
TryUnknown ==
    /\ pc = "tryTarball"
    /\ tryTarballHost(rr.callURL) = "unknown"
    /\ ret' = [tarball |-> RemoteTarball(<<>>, <<>>, <<>>), err |-> Err("Unknown server")]
    /\ pc' = "tried"
    /\ UNCHANGED <<lock, idx, exitCode, stdout, stderr, rr, gh, repo, files,
                   handles, roots, probes, fetches, fnIn, fnOut>>

----------------------------------------------------------------------------
(* githubTarball, main.go:75-125, and downloadFile, main.go:51-60 *)

\* ioutil.TempFile fails: return nil, err (nothing is deferred yet)
TempFileFail ==
    /\ pc = "githubTarball"
    /\ ret' = [tarball |-> Nil, err |-> Err("ioutil.TempFile")]
    /\ gh' = Nil
    /\ pc' = "tried"
    /\ UNCHANGED <<lock, idx, exitCode, stdout, stderr, rr, repo, files, handles,
                   roots, probes, fetches, fnIn, fnOut>>

\* f is created and open; defer os.Remove(filename); downloadURL is built
TempFileOk ==
    /\ pc = "githubTarball"
    /\ \E n \in TmpNames \ DOMAIN files :
        /\ files' = CreateFile(files, n)
        /\ gh' = [gh EXCEPT !.filename = n,
                            !.downloadURL = DownloadURL(gh.url, gh.revision)]
    /\ handles' = handles + 1
    /\ pc' = "downloadFile"
    /\ UNCHANGED <<lock, idx, exitCode, stdout, stderr, rr, ret, repo, roots,
                   probes, fetches, fnIn, fnOut>>

\* http.Get returns an error: downloadFile and githubTarball return it
GetFail ==
    /\ pc = "downloadFile"
    /\ fetches' = Append(fetches, gh.downloadURL)
    /\ ret' = [tarball |-> Nil, err |-> Err("http.Get")]
    /\ pc' = "deferred"
    /\ UNCHANGED <<lock, idx, exitCode, stdout, stderr, rr, gh, repo, files,
                   handles, roots, probes, fnIn, fnOut>>

\* http.Get returns a response (of any status) and io.Copy fails while
\* reading its body; what reached the file by then is not read again.
CopyFail ==
    /\ pc = "downloadFile"
    /\ fetches' = Append(fetches, gh.downloadURL)
    /\ \E st \in HTTPStatuses : gh' = [gh EXCEPT !.status = st]
    /\ ret' = [tarball |-> Nil, err |-> Err("io.Copy")]
    /\ pc' = "deferred"
    /\ UNCHANGED <<lock, idx, exitCode, stdout, stderr, rr, repo, files, handles,
                   roots, probes, fnIn, fnOut>>

\* http.Get returns a response (of any status), its body is copied to the
\* file, downloadFile returns nil and f.Close() is called
Downloaded ==
    /\ pc = "downloadFile"
    /\ fetches' = Append(fetches, gh.downloadURL)
    /\ \E st \in HTTPStatuses, i \in 1..Len(Bodies) :
        /\ gh' = [gh EXCEPT !.status = st]
        /\ files' = WriteFile(files, gh.filename, Bodies[i])
    /\ handles' = handles - 1
    /\ pc' = "inspect"
    /\ UNCHANGED <<lock, idx, exitCode, stdout, stderr, rr, ret, repo, roots,
                   probes, fnIn, fnOut>>

\* ioutil.ReadFile(filename) fails
ReadFileFail ==
    /\ pc = "inspect"
    /\ ret' = [tarball |-> Nil, err |-> Err("ioutil.ReadFile")]
    /\ pc' = "deferred"
    /\ UNCHANGED <<lock, idx, exitCode, stdout, stderr, rr, gh, repo, files,
                   handles, roots, probes, fetches, fnIn, fnOut>>

\* gzip.NewReader fails on the bytes read
GzipFail ==
    /\ pc = "inspect"
    /\ gh.filename \in DOMAIN files
    /\ ~files[gh.filename].magic
    /\ ret' = [tarball |-> Nil, err |-> Err("gzip.NewReader")]
    /\ pc' = "deferred"
    /\ UNCHANGED <<lock, idx, exitCode, stdout, stderr, rr, gh, repo, files,
                   handles, roots, probes, fetches, fnIn, fnOut>>

\* the first tarReader.Next() fails
TarFirstFail ==
    /\ pc = "inspect"
    /\ gh.filename \in DOMAIN files
    /\ files[gh.filename].magic
    /\ Len(files[gh.filename].entries) = 0
    /\ ret' = [tarball |-> Nil, err |-> Err("tarReader.Next 1")]
    /\ pc' = "deferred"
    /\ UNCHANGED <<lock, idx, exitCode, stdout, stderr, rr, gh, repo, files,
                   handles, roots, probes, fetches, fnIn, fnOut>>

\* the second tarReader.Next() fails
TarSecondFail ==
    /\ pc = "inspect"
    /\ gh.filename \in DOMAIN files
    /\ files[gh.filename].magic
    /\ Len(files[gh.filename].entries) = 1
    /\ ret' = [tarball |-> Nil, err |-> Err("tarReader.Next 2")]
    /\ pc' = "deferred"
    /\ UNCHANGED <<lock, idx, exitCode, stdout, stderr, rr, gh, repo, files,
                   handles, roots, probes, fetches, fnIn, fnOut>>

\* stripPrefix := head.Name; sha := fmt.Sprintf("%x", sha256.Sum256(b)); return
Inspected ==
    /\ pc = "inspect"
    /\ gh.filename \in DOMAIN files
    /\ files[gh.filename].magic
    /\ Len(files[gh.filename].entries) >= 2
    /\ ret' = [tarball |-> RemoteTarball(gh.downloadURL,
                                         files[gh.filename].entries[2],
                                         Sha256Hex(files[gh.filename])),
               err |-> Nil]
    /\ pc' = "deferred"
    /\ UNCHANGED <<lock, idx, exitCode, stdout, stderr, rr, gh, repo, files,
                   handles, roots, probes, fetches, fnIn, fnOut>>

\* the deferred os.Remove(filename) runs and githubTarball returns
Deferred ==
    /\ pc = "deferred"
    /\ files' = RemoveFile(files, gh.filename)
    /\ gh' = Nil
    /\ pc' = "tried"
    /\ UNCHANGED <<lock, idx, exitCode, stdout, stderr, rr, ret, repo, handles,
                   roots, probes, fetches, fnIn, fnOut>>

Next ==
    \/ MainUsage
    \/ MainReadFail
    \/ MainParseFail
    \/ MainHeader
    \/ RootFail
    \/ RootOk
    \/ MainReturn
    \/ Emit
    \/ TryRemapped
    \/ ReturnTarball
    \/ TryOriginal
    \/ ReturnGit
    \/ TryGithub
    \/ TryGooglesource
    \/ TryUnknown
    \/ TempFileFail
    \/ TempFileOk
    \/ GetFail
    \/ CopyFail
    \/ Downloaded
    \/ ReadFileFail
    \/ GzipFail
    \/ TarFirstFail
    \/ TarSecondFail
    \/ Inspected
    \/ Deferred

Spec == Init /\ [][Next]_vars

----------------------------------------------------------------------------
(* remapURL on its own: every input is remapped, and the result again *)

MaxChunks == 3

\* "https://gopkg.in", "https://go.googlesource.com", "https://github.com", "https://example.com"
RemapHosts ==
    {<<"h","t","t","p","s",":","/","/","g","o","p","k","g",".","i","n">>,
     <<"h","t","t","p","s",":","/","/","g","o",".","g","o","o","g","l","e","s","o","u","r","c","e",".","c","o","m">>,
     <<"h","t","t","p","s",":","/","/","g","i","t","h","u","b",".","c","o","m">>,
     <<"h","t","t","p","s",":","/","/","e","x","a","m","p","l","e",".","c","o","m">>}

\* "/ab", "/Ab", "/v1", ".v1", ".git", ".0", "-unstable"
RemapChunks ==
    {<<"/","a","b">>, <<"/","A","b">>, <<"/","v","1">>, <<".","v","1">>, <<".","g","i","t">>, <<".","0">>, <<"-","u","n","s","t","a","b","l","e">>}

RECURSIVE Flatten(_)
Flatten(q) == IF Len(q) = 0 THEN <<>> ELSE q[1] \o Flatten(Tail(q))

\* "https://gopkg.in/fsnotify/fsnotify.v1"
UrlGopkgFsnotify == <<"h","t","t","p","s",":","/","/","g","o","p","k","g",".","i","n","/","f","s","n","o","t","i","f","y","/","f","s","n","o","t","i","f","y",".","v","1">>

RemapInputs ==
    {h \o Flatten(c) : h \in RemapHosts,
                       c \in UNION {[1..n -> RemapChunks] : n \in 0..MaxChunks}}
    \cup RootURLs \cup {UrlGopkgFsnotify}

Idle ==
    /\ lock = <<>>
    /\ idx = 1
    /\ exitCode = NoExit
    /\ stdout = <<>>
    /\ stderr = <<>>
    /\ rr = Nil
    /\ gh = Nil
    /\ ret = Nil
    /\ repo = Nil
    /\ files = EmptyDir
    /\ handles = 0
    /\ roots = <<>>
    /\ probes = <<>>
    /\ fetches = <<>>

InitRemap ==
    /\ Idle
    /\ pc = "remapURL"
    /\ fnIn \in RemapInputs
    /\ fnOut = <<>>

RemapOnce ==
    /\ pc = "remapURL"
    /\ Len(fnOut) = 0
    /\ fnOut' = <<remapURL(fnIn)>>
    /\ UNCHANGED <<lock, idx, pc, exitCode, stdout, stderr, rr, gh, ret, repo,
                   files, handles, roots, probes, fetches, fnIn>>

RemapAgain ==
    /\ pc = "remapURL"
    /\ Len(fnOut) = 1
    /\ fnOut' = Append(fnOut, remapURL(fnOut[1]))
    /\ UNCHANGED <<lock, idx, pc, exitCode, stdout, stderr, rr, gh, ret, repo,
                   files, handles, roots, probes, fetches, fnIn>>

NextRemap ==
    \/ RemapOnce
    \/ RemapAgain

SpecRemap == InitRemap /\ [][NextRemap]_vars

----------------------------------------------------------------------------
(* GetRepoString on its own *)

RenderURLs ==
    {<<>>,
     DownloadURL(UrlGithubErrors, RevA),
     googlesourceTarball(UrlGooglesourceNet, RevB).url}

RenderDescriptors ==
    {RemoteTarball(u, sp, sh) : u \in RenderURLs,
                                sp \in {<<>>, EntryPax, EntryRoot},
                                sh \in {<<>>, Sha256Hex(Bodies[1]), Sha256Hex(Bodies[4])}}
    \cup {RemoteGitRepo(r) : r \in {<<>>, RevA, RevB}}

InitRender ==
    /\ Idle
    /\ pc = "GetRepoString"
    /\ fnIn \in [r : RenderDescriptors, importPath : {NameErrors, NameYaml}]
    /\ fnOut = <<>>

Render ==
    /\ pc = "GetRepoString"
    /\ Len(fnOut) = 0
    /\ fnOut' = <<GetRepoString(fnIn.r, bazelName(fnIn.importPath), fnIn.importPath)>>
    /\ UNCHANGED <<lock, idx, pc, exitCode, stdout, stderr, rr, gh, ret, repo,
                   files, handles, roots, probes, fetches, fnIn>>

NextRender == Render

SpecRender == InitRender /\ [][NextRender]_vars

----------------------------------------------------------------------------
(* Properties *)

InGithubTarball == pc \in {"githubTarball", "downloadFile", "inspect", "deferred"}

IsError(v) == v.type = "error"

\* The project remoteRepository is working for, while pc = "returned".
SourceURL == roots[idx].Repo
Revision == lock[idx].Revision

\* C1: remoteRepository always returns a descriptor and a nil error, chosen
\* by strict priority: the tarball of tryTarball(remapURL(url), revision) if
\* that call succeeds, and then the original url is not probed; otherwise the
\* tarball of tryTarball(url, revision) if that succeeds; otherwise a
\* RemoteGitRepo holding the input revision.
Thm_C1_ResolvePriority ==
    /\ \A i \in 1..Len(stderr) : stderr[i].kind # "failed to parse"
    /\ pc = "returned" =>
        /\ repo.err = Nil
        /\ Len(probes) \in {1, 2}
        /\ probes[1].url = remapURL(SourceURL)
        /\ probes[1].revision = Revision
        /\ IF probes[1].ret.err = Nil
           THEN /\ Len(probes) = 1
                /\ repo.value = probes[1].ret.tarball
                /\ repo.value.type = "RemoteTarball"
           ELSE /\ Len(probes) = 2
                /\ probes[2].url = SourceURL
                /\ probes[2].revision = Revision
                /\ IF probes[2].ret.err = Nil
                   THEN /\ repo.value = probes[2].ret.tarball
                        /\ repo.value.type = "RemoteTarball"
                   ELSE repo.value = [type |-> "RemoteGitRepo", revision |-> Revision]

\* remoteRepository returned the tarball of its second tryTarball call
Wit_C1_SecondChance ==
    /\ pc = "returned"
    /\ Len(probes) = 2
    /\ probes[2].ret.err = Nil
    /\ repo.value = probes[2].ret.tarball

\* C2: no retries: within one remoteRepository call no archive URL is
\* fetched more than once.
Cex_C2_NoRetry ==
    \A i, j \in 1..Len(fetches) : i # j => fetches[i] # fetches[j]

\* C3: when vcs.RepoRootForImportPath fails for a project, the failure goes
\* to the error stream and nothing for it to the standard output,
\* remoteRepository is not called for it, no rule is emitted for it, the
\* later projects are still processed and the exit status stays 0.
Cex_C3_RootFailureToStderr ==
    /\ \A i \in 1..Len(roots) : IsError(roots[i]) =>
        /\ \E k \in 1..Len(stderr) : stderr[k].project = i
        /\ \A k \in 1..Len(stdout) : stdout[k].project # i
    /\ (pc \notin {"main", "loop", "exit"}) => ~IsError(roots[idx])
    /\ (pc = "exit" /\ Len(stdout) > 0 /\ stdout[1].kind = "header") =>
        /\ exitCode = 0
        /\ Len(roots) = Len(lock)

\* C4: after the header the standard output holds exactly one rule per
\* project whose root was resolved, in lockfile order, and the resolution of
\* a project starts only after every earlier project was emitted or skipped.
Cex_C4_OneRulePerResolvedProject ==
    (Len(stdout) > 0 /\ stdout[1].kind = "header") =>
        LET done  == idx - 1
            rules == Tail(stdout)
        IN  /\ \A k \in 1..Len(rules) : rules[k].kind = "rule"
            /\ \A k \in 1..(Len(rules) - 1) : rules[k].project < rules[k + 1].project
            /\ {rules[k].project : k \in 1..Len(rules)}
                 = {i \in 1..done : ~IsError(roots[i])}
            /\ Len(roots) \in {done, done + 1}

\* C5: a temporary file exists only while githubTarball runs: whichever way
\* githubTarball returns, the file it created is gone.
Thm_C5_TempFileRemoved ==
    /\ ~InGithubTarball => DOMAIN files = {}
    /\ InGithubTarball => DOMAIN files \subseteq {gh.filename}

\* githubTarball has returned by each of its exits after the file was created
Wit_C5_ReturnedAfterCreate ==
    /\ pc = "tried"
    /\ Len(probes) = 1
    /\ ret.err = Err("tarReader.Next 2")
    /\ probes[1].ret.err \in {Err("http.Get"), Err("io.Copy"), Err("ioutil.ReadFile"),
                              Err("gzip.NewReader"), Err("tarReader.Next 1")}
    /\ DOMAIN files = {}

FetchErrors == {Err("http.Get"), Err("io.Copy")}
ArchiveFormatErrors == {Err("gzip.NewReader"), Err("tarReader.Next 1"), Err("tarReader.Next 2")}

\* C6: githubTarball returns no tarball and a fetch error whenever the HTTP
\* request does not succeed (transport failure or non-success status), an
\* archive format error whenever the bytes are not gzip or hold fewer than
\* two entries, and on success stripPrefix is the second entry's name and
\* sha256 the digest of the downloaded bytes.
Cex_C6_FetchErrorOnHTTPFailure ==
    pc = "deferred" =>
        /\ (ret.err = Err("http.Get") \/ gh.status \notin {0, 200}) =>
              (ret.tarball = Nil /\ ret.err \in FetchErrors)
        /\ (ret.err = Nil) =>
              /\ ret.tarball.url = gh.url \o ArchiveInfix \o gh.revision \o TarGzSuffix
              /\ ret.tarball.stripPrefix = files[gh.filename].entries[2]
              /\ ret.tarball.sha256 = Sha256Hex(files[gh.filename])
        /\ (gh.status = 200 /\ ret.err \notin FetchErrors \cup {Err("ioutil.ReadFile")}
              /\ (~files[gh.filename].magic \/ Len(files[gh.filename].entries) < 2)) =>
              (ret.tarball = Nil /\ ret.err \in ArchiveFormatErrors)

\* C7: tryTarball fetches and creates a temporary file only for a
\* github.com URL; for a go.googlesource.com URL it returns at once the
\* tarball <url>/+archive/<revision>.tar.gz with empty stripPrefix and
\* sha256; for any other URL it returns at once the "Unknown server" error.
Thm_C7_ProbeByHost ==
    [][ /\ (pc = "tryTarball" /\ ~HasPrefix(rr.callURL, GithubPrefix)) =>
            /\ pc' = "tried"
            /\ fetches' = fetches
            /\ files' = files
            /\ handles' = handles
            /\ IF HasPrefix(rr.callURL, GooglesourcePrefix)
               THEN ret' = [tarball |-> [type |-> "RemoteTarball",
                                         url |-> rr.callURL \o PlusArchiveInfix
                                                    \o rr.revision \o TarGzSuffix,
                                         stripPrefix |-> <<>>,
                                         sha256 |-> <<>>],
                            err |-> Nil]
               ELSE ret'.err = Err("Unknown server")
        /\ (Len(fetches') > Len(fetches) \/ ~(DOMAIN files' \subseteq DOMAIN files)) =>
            /\ InGithubTarball
            /\ HasPrefix(rr.callURL, GithubPrefix)
      ]_vars

\* tryTarball has returned for a go.googlesource.com URL without any fetch
Wit_C7_GooglesourceNoFetch ==
    /\ pc = "tried"
    /\ HasPrefix(rr.callURL, GooglesourcePrefix)
    /\ ret.err = Nil
    /\ ret.tarball.sha256 = <<>>
    /\ \A k \in 1..Len(fetches) : ~HasPrefix(fetches[k], GooglesourcePrefix)

Keys(text) == [k \in 1..Len(text) |-> text[k].key]

\* C8: GetRepoString of a RemoteTarball gives name, importpath, urls (a list
\* of the one url), strip_prefix, sha256 exactly when the checksum is not
\* empty, then the disabled proto mode, in this order; of a RemoteGitRepo it
\* gives name, importpath, commit (the revision) and the same flag.
Thm_C8_RenderFields ==
    Len(fnOut) = 1 =>
        LET text == fnOut[1]
            r    == fnIn.r
        IN  /\ text[2] = [key |-> "name", val |-> bazelName(fnIn.importPath)]
            /\ text[3] = [key |-> "importpath", val |-> fnIn.importPath]
            /\ text[Len(text) - 1].key = "build_file_proto_mode"
            /\ text[Len(text) - 1].val = <<"d","i","s","a","b","l","e">>
            /\ IF r.type = "RemoteTarball"
               THEN /\ Keys(text) =
                         IF r.sha256 # <<>>
                         THEN <<"go_repository(", "name", "importpath", "urls",
                                "strip_prefix", "sha256", "build_file_proto_mode", ")">>
                         ELSE <<"go_repository(", "name", "importpath", "urls",
                                "strip_prefix", "build_file_proto_mode", ")">>
                    /\ text[4].val = <<r.url>>
                    /\ text[5].val = r.stripPrefix
                    /\ r.sha256 # <<>> => text[6].val = r.sha256
               ELSE /\ Keys(text) = <<"go_repository(", "name", "importpath", "commit",
                                      "build_file_proto_mode", ")">>
                    /\ text[4].val = r.revision

\* a tarball without checksum was rendered
Wit_C8_TarballNoChecksum ==
    /\ Len(fnOut) = 1
    /\ fnIn.r.type = "RemoteTarball"
    /\ fnIn.r.sha256 = <<>>
    /\ fnIn.r.stripPrefix # <<>>

\* https://github.com/<user>/<name>, or https://github.com/go-<name>/<name>
GithubOf(user, name) ==
    IF user # <<>>
    THEN <<"h","t","t","p","s",":","/","/","g","i","t","h","u","b",".","c","o","m","/">> \o user \o <<"/">> \o name
    ELSE <<"h","t","t","p","s",":","/","/","g","i","t","h","u","b",".","c","o","m","/","g","o","-">> \o name \o <<"/">> \o name

LastSegment(u) == Split(u, "/")[Len(Split(u, "/"))]

UserPart(user) == IF user = <<>> THEN <<>> ELSE user \o <<"/">>

\* C9: remapURL is total and first match wins: a gopkg.in URL whose tail
\* matches the new pattern, or else the legacy pattern, goes to
\* https://github.com/<user>/<name>, or https://github.com/go-<name>/<name>
\* without user; a gopkg.in URL matching neither is unchanged; a
\* go.googlesource.com URL goes to https://github.com/golang/<last segment>;
\* any other URL is unchanged; and remapping the result changes nothing.
Thm_C9_Remap ==
    Len(fnOut) >= 1 =>
        LET u    == fnIn
            r    == fnOut[1]
            tail == SubSeq(u, 17, Len(u))
            mn   == MatchNew(tail)
            mo   == MatchOld(tail)
        IN  /\ IF HasPrefix(u, <<"h","t","t","p","s",":","/","/","g","o","p","k","g",".","i","n","/">>)
               THEN IF mn # NoMatch
                    THEN /\ HasPrefix(tail, <<"/">> \o UserPart(mn[1]) \o mn[2] \o <<".">> \o mn[3])
                         /\ r = GithubOf(mn[1], mn[2])
                    ELSE IF mo # NoMatch
                    THEN /\ HasPrefix(tail, <<"/">> \o UserPart(mo[1]) \o mo[2] \o <<"/">> \o mo[3])
                         /\ mo[2][1] = "v"
                         /\ r = GithubOf(mo[1], mo[3])
                    ELSE r = u
               ELSE IF HasPrefix(u, <<"h","t","t","p","s",":","/","/","g","o",".","g","o","o","g","l","e","s","o","u","r","c","e",".","c","o","m","/">>)
               THEN r = <<"h","t","t","p","s",":","/","/","g","i","t","h","u","b",".","c","o","m","/","g","o","l","a","n","g","/">> \o LastSegment(u)
               ELSE r = u
            /\ u = UrlGopkgYaml => r = <<"h","t","t","p","s",":","/","/","g","i","t","h","u","b",".","c","o","m","/","g","o","-","y","a","m","l","/","y","a","m","l">>
            /\ u = UrlGopkgFsnotify => r = <<"h","t","t","p","s",":","/","/","g","i","t","h","u","b",".","c","o","m","/","f","s","n","o","t","i","f","y","/","f","s","n","o","t","i","f","y">>
            /\ u = UrlGooglesourceNet => r = <<"h","t","t","p","s",":","/","/","g","i","t","h","u","b",".","c","o","m","/","g","o","l","a","n","g","/","n","e","t">>
            /\ Len(fnOut) = 2 => fnOut[2] = fnOut[1]

\* a gopkg.in URL in the legacy form was remapped, and the result again
Wit_C9_LegacyRemapped ==
    /\ Len(fnOut) = 2
    /\ HasPrefix(fnIn, <<"h","t","t","p","s",":","/","/","g","o","p","k","g",".","i","n","/","v","1","/","a","b">>)
    /\ fnOut[1] # fnIn

\* C10: for a go.googlesource.com root remoteRepository always returns a
\* RemoteTarball: the checksummed one of the github.com/golang mirror or,
\* when that probe fails, the go.googlesource.com one with empty stripPrefix
\* and sha256; such a project is never rendered with a commit field.
Thm_C10_GooglesourceNeverGit ==
    /\ (pc = "returned" /\ HasPrefix(SourceURL, GooglesourcePrefix)) =>
        /\ repo.value.type = "RemoteTarball"
        /\ IF probes[1].ret.err = Nil
           THEN /\ repo.value = probes[1].ret.tarball
                /\ HasPrefix(repo.value.url, GithubGolang)
                /\ repo.value.sha256 # <<>>
           ELSE /\ repo.value.url = SourceURL \o PlusArchiveInfix \o Revision \o TarGzSuffix
                /\ repo.value.stripPrefix = <<>>
                /\ repo.value.sha256 = <<>>
    /\ \A k \in 1..Len(stdout) :
        (stdout[k].kind = "rule" /\ HasPrefix(roots[stdout[k].project].Repo, GooglesourcePrefix)) =>
            \A f \in 1..Len(stdout[k].text) : stdout[k].text[f].key # "commit"

\* a go.googlesource.com project was emitted after its mirror probe failed
Wit_C10_MirrorFailed ==
    /\ Len(stdout) >= 2
    /\ stdout[Len(stdout)].kind = "rule"
    /\ HasPrefix(roots[stdout[Len(stdout)].project].Repo, GooglesourcePrefix)
    /\ \E f \in 1..Len(stdout[Len(stdout)].text) :
        /\ stdout[Len(stdout)].text[f].key = "strip_prefix"
        /\ stdout[Len(stdout)].text[f].val = <<>>

====
